---- MODULE Spec2Model ----
(***************************************************************************)
(* A model of TaskManagerV2.py: the Task record, the TaskManager store     *)
(* (load / save / filter / sort / add / update / delete over tasks.json),  *)
(* the date validator and the part of the Tkinter GUI that maps a selected *)
(* row back to a store index.                                              *)
(*                                                                         *)
(* Python str values are sequences of one-character strings, so that       *)
(* lower(), strip(), slicing, "in" and int() are computed, not assumed.    *)
(* The backing file is a sequence of JSON tokens: json.dump produces it    *)
(* and json.load parses it, so a truncated file is a file that does not    *)
(* parse.                                                                  *)
(***************************************************************************)
EXTENDS Integers, Sequences, FiniteSets, TLC

VARIABLES
    tasks,      \* TaskManager.tasks: the in-memory list of Task
    file,       \* tasks.json: [exists, text], text a sequence of JSON tokens
    last,       \* the last completed call: its arguments, result and pre-state
    pc,         \* where the process is inside save_tasks_to_json
    wbuf,       \* the tokens json.dump has still to write
    date,       \* the argument of validate_date
    valid,      \* what validate_date returned for it
    gui         \* TaskManagerGUI: tree rows, selection, dialogs, sort flags

vars == <<tasks, file, last, pc, wbuf, date, valid, gui>>

(***************************************************************************)
(* Python str                                                              *)
(***************************************************************************)

\* None, where an argument may be None: no str is a sequence holding "None".
None == <<"None">>

Digits == <<"0", "1", "2", "3", "4", "5", "6", "7", "8", "9">>

UpperCase == <<"A", "B", "C", "D", "E", "F", "G", "H", "I", "J", "K", "L", "M",
               "N", "O", "P", "Q", "R", "S", "T", "U", "V", "W", "X", "Y", "Z">>

LowerCase == <<"a", "b", "c", "d", "e", "f", "g", "h", "i", "j", "k", "l", "m",
               "n", "o", "p", "q", "r", "s", "t", "u", "v", "w", "x", "y", "z">>

\* The characters of the model in code point order (a part of ASCII).
Ascii == <<"\t", "\n", " ", "+", "-", "/">> \o Digits \o UpperCase
         \o <<"_">> \o LowerCase

Range(s) == {s[i] : i \in DOMAIN s}

IsDigit(c) == c \in Range(Digits)

IsSpace(c) == c \in {" ", "\t", "\n"}

DigitVal(c) == (CHOOSE i \in DOMAIN Digits : Digits[i] = c) - 1

Ord(c) == CHOOSE i \in DOMAIN Ascii : Ascii[i] = c

\* str.lower() on one character.
LowerChar(c) ==
    IF c \in Range(UpperCase)
    THEN LowerCase[CHOOSE i \in DOMAIN UpperCase : UpperCase[i] = c]
    ELSE c

\* str.lower()
Lower(s) == [i \in DOMAIN s |-> LowerChar(s[i])]

\* str.strip(): leading and trailing whitespace removed.
Strip(s) ==
    LET keep == {i \in DOMAIN s : ~IsSpace(s[i])}
    IN  IF keep = {} THEN <<>>
        ELSE LET lo == CHOOSE i \in keep : \A j \in keep : i <= j
                 hi == CHOOSE i \in keep : \A j \in keep : j <= i
             IN  SubSeq(s, lo, hi)

\* a in b, for two str.
Contains(a, b) ==
    \E i \in 0..(Len(b) - Len(a)) : SubSeq(b, i + 1, i + Len(a)) = a

\* a < b for two str: by code point, a proper prefix first.
StrLess(a, b) ==
    \E i \in 1..Len(b) :
        /\ \A j \in 1..(i - 1) : j <= Len(a) /\ a[j] = b[j]
        /\ \/ i = Len(a) + 1
           \/ i <= Len(a) /\ Ord(a[i]) < Ord(b[i])

\* Python's slice s[lo:hi] for 0 <= lo <= hi, cut to the length of s.
Slice(s, lo, hi) ==
    SubSeq(s, lo + 1, IF hi < Len(s) THEN hi ELSE Len(s))

RECURSIVE DigitsValue(_)
\* The value of a sequence of decimal digits.
DigitsValue(s) ==
    IF s = <<>> THEN 0
    ELSE 10 * DigitsValue(SubSeq(s, 1, Len(s) - 1)) + DigitVal(s[Len(s)])

Reverse(s) == [i \in DOMAIN s |-> s[Len(s) + 1 - i]]

(***************************************************************************)
(* int(), datetime.strptime(s, "%Y-%m-%d") and validate_date               *)
(***************************************************************************)

\* int(s) for a str: surrounding whitespace is dropped, one sign is allowed,
\* and single underscores may separate digits. ok = FALSE is ValueError.
PyInt(s) ==
    LET t == Strip(s)
        signed == t # <<>> /\ t[1] \in {"+", "-"}
        body == IF signed THEN Tail(t) ELSE t
        wellFormed ==
            /\ body # <<>>
            /\ IsDigit(body[1]) /\ IsDigit(body[Len(body)])
            /\ \A i \in DOMAIN body : IsDigit(body[i]) \/ body[i] = "_"
            /\ \A i \in 1..(Len(body) - 1) : ~(body[i] = "_" /\ body[i + 1] = "_")
        n == DigitsValue(SelectSeq(body, IsDigit))
    IN  IF wellFormed
        THEN [ok |-> TRUE, v |-> IF signed /\ t[1] = "-" THEN 0 - n ELSE n]
        ELSE [ok |-> FALSE, v |-> 0]

\* The leap year rule of validate_date, which is also the datetime module's.
IsLeap(year) == year % 400 = 0 \/ (year % 100 # 0 /\ year % 4 = 0)

days_in_month == <<31, 28, 31, 30, 31, 30, 31, 31, 30, 31, 30, 31>>

DaysIn(year, month) ==
    IF month = 2 /\ IsLeap(year) THEN 29 ELSE days_in_month[month]

\* TaskManagerGUI.validate_date, for a str argument.
validate_date(d) ==
    IF Len(d) # 10 \/ d[5] # "-" \/ d[8] # "-" THEN FALSE
    ELSE LET year == PyInt(Slice(d, 0, 4))
             month == PyInt(Slice(d, 5, 7))
             day == PyInt(Slice(d, 8, 10))
         IN  IF ~year.ok \/ ~month.ok \/ ~day.ok THEN FALSE
             ELSE IF year.v < 1900 \/ year.v > 2100 THEN FALSE
             ELSE IF month.v < 1 \/ month.v > 12 THEN FALSE
             ELSE IF day.v < 1 \/ day.v > DaysIn(year.v, month.v) THEN FALSE
             ELSE TRUE

\* The directive %m of strptime: 1[0-2] | 0[1-9] | [1-9].
MatchesMonth(s) ==
    \/ Len(s) = 2 /\ s[1] = "1" /\ s[2] \in {"0", "1", "2"}
    \/ Len(s) = 2 /\ s[1] = "0" /\ IsDigit(s[2]) /\ s[2] # "0"
    \/ Len(s) = 1 /\ IsDigit(s[1]) /\ s[1] # "0"

\* The directive %d of strptime: 3[0-1] | [1-2]\d | 0[1-9] | [1-9] | " "[1-9].
MatchesDay(s) ==
    \/ Len(s) = 2 /\ s[1] = "3" /\ s[2] \in {"0", "1"}
    \/ Len(s) = 2 /\ s[1] \in {"1", "2"} /\ IsDigit(s[2])
    \/ Len(s) = 2 /\ s[1] \in {"0", " "} /\ IsDigit(s[2]) /\ s[2] # "0"
    \/ Len(s) = 1 /\ IsDigit(s[1]) /\ s[1] # "0"

\* datetime.strptime(s, "%Y-%m-%d"): four digits, "-", a month, "-", a day,
\* nothing before or after, and then a date datetime accepts (year >= 1, the
\* day within the month). ok = FALSE is ValueError; key orders the dates.
Strptime(s) ==
    LET dashes == {i \in 6..Len(s) : s[i] = "-"}
        p == CHOOSE i \in dashes : \A j \in dashes : i <= j
        shaped ==
            /\ Len(s) >= 5
            /\ \A i \in 1..4 : IsDigit(s[i])
            /\ s[5] = "-"
            /\ dashes # {}
            /\ MatchesMonth(SubSeq(s, 6, p - 1))
            /\ MatchesDay(SubSeq(s, p + 1, Len(s)))
        y == DigitsValue(SubSeq(s, 1, 4))
        m == DigitsValue(SubSeq(s, 6, p - 1))
        d == DigitsValue(SelectSeq(SubSeq(s, p + 1, Len(s)), IsDigit))
    IN  IF shaped /\ y >= 1 /\ d <= DaysIn(y, m)
        THEN [ok |-> TRUE, key |-> y * 10000 + m * 100 + d]
        ELSE [ok |-> FALSE, key |-> 0]

(***************************************************************************)
(* Task, and the JSON text of tasks.json                                   *)
(***************************************************************************)

\* Task.__init__: a Task is its four attributes.
Task(name, description, priority, due_date) ==
    [name |-> name, description |-> description,
     priority |-> priority, due_date |-> due_date]

K_name == <<"n", "a", "m", "e">>
K_description == <<"d", "e", "s", "c", "r", "i", "p", "t", "i", "o", "n">>
K_priority == <<"p", "r", "i", "o", "r", "i", "t", "y">>
K_due_date == <<"d", "u", "e", "_", "d", "a", "t", "e">>

\* Python values read from or written to JSON: [ty, v] with ty one of
\* "str" (v the characters), "int", "none", "list" (v a sequence of values)
\* and "dict" (v the items, a sequence of <<key, value>> in insertion order).
PyStr(s) == [ty |-> "str", v |-> s]

PyList(xs) == [ty |-> "list", v |-> xs]

PyDict(items) == [ty |-> "dict", v |-> items]

HasKey(d, k) == \E i \in DOMAIN d.v : d.v[i][1] = k

GetItem(d, k) == d.v[CHOOSE i \in DOMAIN d.v : d.v[i][1] = k][2]

\* d[k] = x on a dict: an existing key keeps its place.
SetItem(d, k, x) ==
    IF HasKey(d, k)
    THEN PyDict([i \in DOMAIN d.v |-> IF d.v[i][1] = k THEN <<k, x>> ELSE d.v[i]])
    ELSE PyDict(Append(d.v, <<k, x>>))

\* to_dict with two values under each other's key.
to_dict_swapped(task) ==
    PyDict(<< <<K_name, PyStr(task.description)>>,
              <<K_description, PyStr(task.name)>>,
              <<K_priority, PyStr(task.priority)>>,
              <<K_due_date, PyStr(task.due_date)>> >>)

\* Task.to_dict
to_dict(task) ==
    PyDict(<< <<K_name, PyStr(task.name)>>,
              <<K_description, PyStr(task.description)>>,
              <<K_priority, PyStr(task.priority)>>,
              <<K_due_date, PyStr(task.due_date)>> >>)

\* A JSON token: punctuation, null, a number or a string with its characters.
Tok(t) == [t |-> t, v |-> <<>>]

StrTok(s) == [t |-> "str", v |-> s]

NumTok(s) == [t |-> "num", v |-> s]

RECURSIVE JoinTokens(_)
\* The token sequences of a list, joined by ",".
JoinTokens(parts) ==
    IF parts = <<>> THEN <<>>
    ELSE IF Len(parts) = 1 THEN parts[1]
    ELSE parts[1] \o <<Tok(",")>> \o JoinTokens(Tail(parts))

RECURSIVE Encode(_)
\* json.dump's encoder for the values the store writes.
Encode(x) ==
    CASE x.ty = "str" -> <<StrTok(x.v)>>
      [] x.ty = "int" -> <<NumTok(x.v)>>
      [] x.ty = "none" -> <<Tok("null")>>
      [] x.ty = "list" ->
            <<Tok("[")>> \o JoinTokens([i \in DOMAIN x.v |-> Encode(x.v[i])])
            \o <<Tok("]")>>
      [] x.ty = "dict" ->
            <<Tok("{")>>
            \o JoinTokens([i \in DOMAIN x.v |->
                   <<StrTok(x.v[i][1]), Tok(":")>> \o Encode(x.v[i][2])])
            \o <<Tok("}")>>

TokAt(toks, i) == IF i <= Len(toks) THEN toks[i].t ELSE "eof"

Failed == [ok |-> FALSE, val |-> [ty |-> "none", v |-> <<>>], next |-> 0]

RECURSIVE ParseValue(_, _), ParseElements(_, _, _), ParseMembers(_, _, _)
\* json.load's decoder: the value that starts at token i and the index after
\* it; ok = FALSE is JSONDecodeError.
ParseValue(toks, i) ==
    CASE TokAt(toks, i) = "str" ->
            [ok |-> TRUE, val |-> PyStr(toks[i].v), next |-> i + 1]
      [] TokAt(toks, i) = "num" ->
            [ok |-> TRUE, val |-> [ty |-> "int", v |-> toks[i].v], next |-> i + 1]
      [] TokAt(toks, i) = "null" ->
            [ok |-> TRUE, val |-> [ty |-> "none", v |-> <<>>], next |-> i + 1]
      [] TokAt(toks, i) = "[" ->
            IF TokAt(toks, i + 1) = "]"
            THEN [ok |-> TRUE, val |-> PyList(<<>>), next |-> i + 2]
            ELSE ParseElements(toks, i + 1, <<>>)
      [] TokAt(toks, i) = "{" ->
            IF TokAt(toks, i + 1) = "}"
            THEN [ok |-> TRUE, val |-> PyDict(<<>>), next |-> i + 2]
            ELSE ParseMembers(toks, i + 1, PyDict(<<>>))
      [] OTHER -> Failed

\* The elements of an array from token i on, after the elements in acc.
ParseElements(toks, i, acc) ==
    LET e == ParseValue(toks, i)
    IN  IF ~e.ok THEN Failed
        ELSE IF TokAt(toks, e.next) = ","
             THEN ParseElements(toks, e.next + 1, Append(acc, e.val))
        ELSE IF TokAt(toks, e.next) = "]"
             THEN [ok |-> TRUE, val |-> PyList(Append(acc, e.val)),
                   next |-> e.next + 1]
        ELSE Failed

\* The members of an object from token i on, after the members in acc.
ParseMembers(toks, i, acc) ==
    IF TokAt(toks, i) # "str" \/ TokAt(toks, i + 1) # ":" THEN Failed
    ELSE LET e == ParseValue(toks, i + 2)
         IN  IF ~e.ok THEN Failed
             ELSE IF TokAt(toks, e.next) = ","
                  THEN ParseMembers(toks, e.next + 1,
                                    SetItem(acc, toks[i].v, e.val))
             ELSE IF TokAt(toks, e.next) = "}"
                  THEN [ok |-> TRUE, val |-> SetItem(acc, toks[i].v, e.val),
                        next |-> e.next + 1]
             ELSE Failed

\* json.load on the whole text: one value and nothing after it.
JsonLoad(toks) ==
    LET r == ParseValue(toks, 1)
    IN  IF r.ok /\ r.next = Len(toks) + 1 THEN r ELSE Failed

\* json.dump(task_dicts, file, indent=2): the text of the list of dicts.
JsonDump(task_dicts) == Encode(PyList(task_dicts))

\* Task.from_dict: subscripting anything but a dict with a str raises
\* TypeError, a dict without the key raises KeyError. The members read from
\* the file are JSON strings, and the attribute is the str.
from_dict(task_dict) ==
    IF task_dict.ty # "dict"
    THEN [raised |-> "TypeError", task |-> Task(<<>>, <<>>, <<>>, <<>>)]
    ELSE IF \E k \in {K_name, K_description, K_priority, K_due_date} :
                ~HasKey(task_dict, k)
    THEN [raised |-> "KeyError", task |-> Task(<<>>, <<>>, <<>>, <<>>)]
    ELSE [raised |-> "none",
          task |-> Task(GetItem(task_dict, K_name).v,
                        GetItem(task_dict, K_description).v,
                        GetItem(task_dict, K_priority).v,
                        GetItem(task_dict, K_due_date).v)]

\* What "for task_dict in task_dicts" iterates over: the elements of a list,
\* the keys of a dict, the characters of a str; ok = FALSE is TypeError.
Iterate(x) ==
    CASE x.ty = "list" -> [ok |-> TRUE, items |-> x.v]
      [] x.ty = "dict" ->
            [ok |-> TRUE, items |-> [i \in DOMAIN x.v |-> PyStr(x.v[i][1])]]
      [] x.ty = "str" ->
            [ok |-> TRUE, items |-> [i \in DOMAIN x.v |-> PyStr(<<x.v[i]>>)]]
      [] OTHER -> [ok |-> FALSE, items |-> <<>>]

\* TaskManager.__init__ with load_tasks_from_json: the tasks the store ends
\* with, or the exception that leaves the constructor (only FileNotFoundError
\* and JSONDecodeError are caught).
load_tasks_from_json(f) ==
    IF ~f.exists THEN [raised |-> "none", tasks |-> <<>>]
    ELSE LET parsed == JsonLoad(f.text)
             it == Iterate(parsed.val)
             built == [i \in DOMAIN it.items |-> from_dict(it.items[i])]
             bad == {i \in DOMAIN built : built[i].raised # "none"}
         IN  IF ~parsed.ok THEN [raised |-> "none", tasks |-> <<>>]
             ELSE IF ~it.ok THEN [raised |-> "TypeError", tasks |-> <<>>]
             ELSE IF bad # {}
                  THEN [raised |->
                            built[CHOOSE i \in bad : \A j \in bad : i <= j].raised,
                        tasks |-> <<>>]
             ELSE [raised |-> "none",
                   tasks |-> [i \in DOMAIN built |-> built[i].task]]

\* The text save_tasks_to_json writes for a task list.
SavedText(ts) == JsonDump([i \in DOMAIN ts |-> to_dict(ts[i])])

\* TaskManager.save_tasks_to_json, run to completion: the file is opened for
\* writing (created or truncated), the whole text is written, it is closed.
save_tasks_to_json(ts) == [exists |-> TRUE, text |-> SavedText(ts)]

(***************************************************************************)
(* TaskManager: filter, sort, add, update, delete                          *)
(***************************************************************************)

\* Python's truth value of "f and f.strip()" for f None or a str.
Supplied(f) == f # None /\ f # <<>> /\ Strip(f) # <<>>

All == <<"a", "l", "l">>

\* get_filtered_tasks comparing the name filter with the name as it is
\* written, its case kept.
get_filtered_tasks_cased(ts, name_filter, priority_filter, due_date_filter) ==
    LET byName(t) == Contains(Lower(name_filter), t.name)
        byPriority(t) == Lower(t.priority) = Lower(priority_filter)
        byDate(t) == t.due_date = due_date_filter
        f1 == IF Supplied(name_filter) THEN SelectSeq(ts, byName) ELSE ts
        f2 == IF Supplied(priority_filter) /\ Lower(priority_filter) # All
              THEN SelectSeq(f1, byPriority) ELSE f1
        f3 == IF Supplied(due_date_filter) THEN SelectSeq(f2, byDate) ELSE f2
    IN  f3

\* TaskManager.get_filtered_tasks: three filters applied one after another to
\* a copy of the list.
get_filtered_tasks(ts, name_filter, priority_filter, due_date_filter) ==
    LET byName(t) == Contains(Lower(name_filter), Lower(t.name))
        byPriority(t) == Lower(t.priority) = Lower(priority_filter)
        byDate(t) == t.due_date = due_date_filter
        f1 == IF Supplied(name_filter) THEN SelectSeq(ts, byName) ELSE ts
        f2 == IF Supplied(priority_filter) /\ Lower(priority_filter) # All
              THEN SelectSeq(f1, byPriority) ELSE f1
        f3 == IF Supplied(due_date_filter) THEN SelectSeq(f2, byDate) ELSE f2
    IN  f3

High == <<"h", "i", "g", "h">>

Medium == <<"m", "e", "d", "i", "u", "m">>

Low == <<"l", "o", "w">>

\* priority_order.get(task.priority.lower(), 3)
PriorityRank(priority) ==
    CASE Lower(priority) = High -> 0
      [] Lower(priority) = Medium -> 1
      [] Lower(priority) = Low -> 2
      [] OTHER -> 3

\* The key function of each branch of sort_tasks; ok = FALSE is the
\* ValueError of strptime.
SortKey(sort_key, t) ==
    CASE sort_key = "name" -> [ok |-> TRUE, k |-> Lower(t.name)]
      [] sort_key = "priority" -> [ok |-> TRUE, k |-> PriorityRank(t.priority)]
      [] sort_key = "due_date" ->
            [ok |-> Strptime(t.due_date).ok, k |-> Strptime(t.due_date).key]

\* key a < key b: str keys by code point, the others as numbers.
KeyLess(sort_key, a, b) ==
    IF sort_key = "name" THEN StrLess(a, b) ELSE a < b

RECURSIVE StableSort(_, _, _)
\* The indices idx ordered by their keys, equal keys in the order of idx.
StableSort(idx, keys, sort_key) ==
    IF idx = <<>> THEN <<>>
    ELSE LET front == StableSort(SubSeq(idx, 1, Len(idx) - 1), keys, sort_key)
             x == idx[Len(idx)]
             n == Cardinality({i \in DOMAIN front :
                                 ~KeyLess(sort_key, keys[x], keys[front[i]])})
         IN  SubSeq(front, 1, n) \o <<x>> \o SubSeq(front, n + 1, Len(front))

\* A descending sort done as an ascending sort reversed: equal keys end in
\* the opposite of their order.
ListSort_reversed_after(keys, sort_key, reverse) ==
    LET n == Len(keys)
        ident == [i \in 1..n |-> i]
        bad == \E i \in 1..n : ~keys[i].ok
        ks == [i \in 1..n |-> keys[i].k]
        sorted == StableSort(ident, ks, sort_key)
    IN  IF bad THEN [raised |-> "ValueError", perm |-> ident]
        ELSE [raised |-> "none",
              perm |-> IF reverse THEN Reverse(sorted) ELSE sorted]

\* A sort that returns a list of fewer than two elements at once, its keys
\* never computed.
ListSort_short_unkeyed(keys, sort_key, reverse) ==
    LET n == Len(keys)
        ident == [i \in 1..n |-> i]
        bad == n >= 2 /\ \E i \in 1..n : ~keys[i].ok
        ks == [i \in 1..n |-> keys[i].k]
        sorted == StableSort(IF reverse THEN Reverse(ident) ELSE ident,
                             ks, sort_key)
    IN  IF bad THEN [raised |-> "ValueError", perm |-> ident]
        ELSE IF n < 2 THEN [raised |-> "none", perm |-> ident]
        ELSE [raised |-> "none",
              perm |-> IF reverse THEN Reverse(sorted) ELSE sorted]

\* list.sort(key=..., reverse=...): the keys are computed first, for every
\* element and whatever the length; a key that raises leaves the list as it
\* was. A reverse sort reverses, sorts stably, and reverses again. The result
\* is the permutation: position i of the sorted list holds element perm[i].
ListSort(keys, sort_key, reverse) ==
    LET n == Len(keys)
        ident == [i \in 1..n |-> i]
        bad == \E i \in 1..n : ~keys[i].ok
        ks == [i \in 1..n |-> keys[i].k]
        sorted == StableSort(IF reverse THEN Reverse(ident) ELSE ident,
                             ks, sort_key)
    IN  IF bad THEN [raised |-> "ValueError", perm |-> ident]
        ELSE [raised |-> "none",
              perm |-> IF reverse THEN Reverse(sorted) ELSE sorted]

\* TaskManager.sort_tasks: a sort_key that is none of the three sorts nothing.
sort_tasks(ts, sort_key, reverse) ==
    IF sort_key \in {"name", "priority", "due_date"}
    THEN ListSort([i \in DOMAIN ts |-> SortKey(sort_key, ts[i])],
                  sort_key, reverse)
    ELSE [raised |-> "none", perm |-> [i \in DOMAIN ts |-> i]]

Permute(xs, perm) == [i \in DOMAIN perm |-> xs[perm[i]]]

\* The guard with its lower bound forgotten.
ValidIndex_unbounded_below(index, ts) == index < Len(ts)

\* The guard of update_task and delete_task, on a 0-based index.
ValidIndex(index, ts) == 0 <= index /\ index < Len(ts)

\* Python's ts[index] = x for an index the list accepts (0-based, a negative
\* index counts from the end).
SetAt(ts, index, x) ==
    LET i == IF index < 0 THEN Len(ts) + index + 1 ELSE index + 1
    IN  [ts EXCEPT ![i] = x]

\* Python's del ts[index].
DelAt(ts, index) ==
    LET i == IF index < 0 THEN Len(ts) + index + 1 ELSE index + 1
    IN  SubSeq(ts, 1, i - 1) \o SubSeq(ts, i + 1, Len(ts))

\* TaskManager.add_task: append, save, return the task.
add_task(ts, t) == [tasks |-> Append(ts, t), saved |-> TRUE, ret |-> TRUE]

\* update_task that replaces the task and returns without saving.
update_task_unsaved(ts, index, t) ==
    IF ValidIndex(index, ts)
    THEN [tasks |-> SetAt(ts, index, t), saved |-> FALSE, ret |-> TRUE]
    ELSE [tasks |-> ts, saved |-> FALSE, ret |-> FALSE]

\* TaskManager.update_task: replace and save inside the bounds, else False.
update_task(ts, index, t) ==
    IF ValidIndex(index, ts)
    THEN [tasks |-> SetAt(ts, index, t), saved |-> TRUE, ret |-> TRUE]
    ELSE [tasks |-> ts, saved |-> FALSE, ret |-> FALSE]

\* TaskManager.delete_task: remove and save inside the bounds, else False.
delete_task(ts, index) ==
    IF ValidIndex(index, ts)
    THEN [tasks |-> DelAt(ts, index), saved |-> TRUE, ret |-> TRUE]
    ELSE [tasks |-> ts, saved |-> FALSE, ret |-> FALSE]

\* The file after a call: rewritten from the new list when the call saved.
FileAfter(f, r) == IF r.saved THEN save_tasks_to_json(r.tasks) ELSE f

(***************************************************************************)
(* The store driven by any sequence of calls                               *)
(***************************************************************************)

\* The longest task list the calls build.
MaxTasks == 3

S_2024_02_29 == <<"2", "0", "2", "4", "-", "0", "2", "-", "2", "9">>
S_2023_02_29 == <<"2", "0", "2", "3", "-", "0", "2", "-", "2", "9">>
S_2024_1_5 == <<"2", "0", "2", "4", "-", "1", "-", "5">>
S_2025_01_01 == <<"2", "0", "2", "5", "-", "0", "1", "-", "0", "1">>

\* The tasks the calls are given: names that differ by case and contain one
\* another, priorities in both cases and one unrecognised, due dates that
\* strptime parses (one of them not of ten characters) and one it rejects.
TaskPool ==
    { Task(<<"a">>, <<"x">>, High, S_2024_02_29),
      Task(<<"A", "b">>, <<>>, <<"H", "i", "g", "h">>, S_2024_1_5),
      Task(<<"B">>, <<"y">>, Low, S_2025_01_01),
      Task(<<"b", "a">>, <<>>, <<"u", "r", "g", "e", "n", "t">>, S_2024_02_29),
      Task(<<"c">>, <<"x">>, Medium, S_2023_02_29) }

NameFilters == {None, <<" ">>, <<"A">>}

PriorityFilters == {None, <<>>, <<"A", "L", "L">>, <<"h", "i", "G", "H">>}

DateFilters == {None, S_2024_02_29}

\* The tasks update_task is given.
UpdatePool ==
    { Task(<<"A", "b">>, <<>>, <<"H", "i", "g", "h">>, S_2024_1_5),
      Task(<<"c">>, <<"x">>, Medium, S_2023_02_29) }

SortKeys == {"name", "priority", "due_date", "description"}

EmptyTask == Task(<<>>, <<>>, <<>>, <<>>)

Absent == [exists |-> FALSE, text |-> <<>>]

\* No call yet: the store has just been constructed.
NoCall ==
    [op |-> "init", index |-> 0, task |-> EmptyTask, key |-> "",
     reverse |-> FALSE, nf |-> None, pf |-> None, df |-> None,
     ret |-> TRUE, raised |-> "none", result |-> <<>>, wrote |-> FALSE,
     preTasks |-> <<>>, preFile |-> Absent]

\* The call just made, with the state it was made in.
Call(op) == [NoCall EXCEPT !.op = op, !.preTasks = tasks, !.preFile = file]

\* What the other parts of the model hold while the store alone is driven.
NoGui ==
    [tree |-> <<>>, selection |-> 0, dialogs |-> {},
     sort_column |-> "name", sort_reverse |-> FALSE,
     updated |-> FALSE, on_target |-> TRUE, sort_raised |-> "none"]

IdleRest == pc = "idle" /\ wbuf = <<>> /\ date = <<>> /\ valid = FALSE

\* tasks.json when the program starts: absent, empty, cut short, or what an
\* earlier run saved.
InitFiles ==
    { Absent,
      [exists |-> TRUE, text |-> <<>>],
      [exists |-> TRUE, text |-> <<Tok("["), Tok("{")>>] }
    \cup {save_tasks_to_json(<<t>>) : t \in TaskPool}

Init ==
    /\ file \in InitFiles
    /\ tasks = load_tasks_from_json(file).tasks
    /\ last = NoCall
    /\ gui = NoGui
    /\ IdleRest

AddTask(t) ==
    /\ Len(tasks) < MaxTasks
    /\ last = NoCall
    /\ LET r == add_task(tasks, t)
       IN  /\ tasks' = r.tasks
           /\ file' = FileAfter(file, r)
           /\ last' = [Call("add") EXCEPT !.task = t, !.result = <<t>>,
                                          !.wrote = r.saved]
    /\ UNCHANGED <<pc, wbuf, date, valid, gui>>

UpdateTask(index, t) ==
    /\ last = NoCall
    /\ LET r == update_task(tasks, index, t)
       IN  /\ tasks' = r.tasks
           /\ file' = FileAfter(file, r)
           /\ last' = [Call("update") EXCEPT !.index = index, !.task = t,
                                             !.ret = r.ret, !.wrote = r.saved]
    /\ UNCHANGED <<pc, wbuf, date, valid, gui>>

DeleteTask(index) ==
    /\ last = NoCall
    /\ LET r == delete_task(tasks, index)
       IN  /\ tasks' = r.tasks
           /\ file' = FileAfter(file, r)
           /\ last' = [Call("delete") EXCEPT !.index = index,
                                             !.ret = r.ret, !.wrote = r.saved]
    /\ UNCHANGED <<pc, wbuf, date, valid, gui>>

SortTasks(sort_key, reverse) ==
    /\ last = NoCall
    /\ LET r == sort_tasks(tasks, sort_key, reverse)
       IN  /\ tasks' = Permute(tasks, r.perm)
           /\ last' = [Call("sort") EXCEPT !.key = sort_key,
                                           !.reverse = reverse,
                                           !.raised = r.raised,
                                           !.result = IF r.raised = "none"
                                                      THEN Permute(tasks, r.perm)
                                                      ELSE <<>>]
    /\ UNCHANGED <<file, pc, wbuf, date, valid, gui>>

GetFilteredTasks(nf, pf, df) ==
    /\ last = NoCall
    /\ last' = [Call("filter") EXCEPT
                    !.nf = nf, !.pf = pf, !.df = df,
                    !.result = get_filtered_tasks(tasks, nf, pf, df)]
    /\ UNCHANGED <<tasks, file, pc, wbuf, date, valid, gui>>

\* The caller has taken the result: the record of the call is dropped, and the
\* next call starts from the store and the file alone.
Return ==
    /\ last # NoCall
    /\ last' = NoCall
    /\ UNCHANGED <<tasks, file, pc, wbuf, date, valid, gui>>

Next ==
    \/ Return
    \/ \E t \in TaskPool : AddTask(t)
    \/ \E i \in -1..MaxTasks, t \in UpdatePool : UpdateTask(i, t)
    \/ \E i \in -1..MaxTasks : DeleteTask(i)
    \/ \E k \in SortKeys, r \in BOOLEAN : SortTasks(k, r)
    \/ \E nf \in NameFilters, pf \in PriorityFilters, df \in DateFilters :
           GetFilteredTasks(nf, pf, df)

Spec == Init /\ [][Next]_vars

(***************************************************************************)
(* Properties of the store                                                 *)
(***************************************************************************)

\* What a fresh TaskManager constructed from the file now would hold.
Reloaded == load_tasks_from_json(file)

Count(xs, x) == Cardinality({i \in DOMAIN xs : xs[i] = x})

\* a and b hold the same elements the same number of times.
IsPermutation(a, b) ==
    /\ Len(a) = Len(b)
    /\ \A x \in Range(a) \cup Range(b) : Count(a, x) = Count(b, x)

Mutated == last.op \in {"add", "update", "delete"} /\ last.ret

\* C1: after each successful add_task, update_task or delete_task, a fresh
\* TaskManager constructed from the backing file holds the same tasks, with
\* the same four field values, in the same order as the store.
C1_MutationPersisted ==
    Mutated => /\ last.wrote
               /\ LET r == Reloaded
                  IN  r.raised = "none" /\ r.tasks = tasks

\* An update inside the bounds has changed a list of three tasks.
C1_Witness ==
    /\ last.op = "update" /\ last.ret
    /\ Len(tasks) = 3 /\ tasks # last.preTasks

\* C2 as stated: in every state reached by completed calls, sort_tasks and
\* get_filtered_tasks among them, reloading the file yields the in-memory
\* sequence, in content and order.
C2_FileEqualsMemory == Reloaded.tasks = tasks

\* C2 as amended: reloading the file always yields the tasks of the in-memory
\* sequence, each as many times, though not always in its order; and every
\* call other than sort_tasks that starts with file and memory in the same
\* order ends with them in the same order (stated from the end: if they
\* differ after such a call, they differed before it).
C2_FileIsPermutationOfMemory ==
    LET r == Reloaded
    IN  /\ r.raised = "none"
        /\ IsPermutation(r.tasks, tasks)
        /\ (/\ last.op \in {"add", "update", "delete", "filter"}
            /\ r.tasks # tasks)
           => load_tasks_from_json(last.preFile).tasks # last.preTasks

\* A sort has reordered the list in memory, and the file still holds the
\* order it had.
C2_Witness ==
    /\ last.op = "sort" /\ last.raised = "none"
    /\ tasks # last.preTasks
    /\ Reloaded.tasks = last.preTasks

\* C5: update_task and delete_task with index < 0 or index >= len(tasks)
\* return False without raising, leave the list as it was and do not write
\* the file; with 0 <= index < len(tasks) they return True and change only
\* the task at that index: update replaces it, delete removes it, and the
\* other tasks keep their places relative to one another.
C5_IndexBounds ==
    last.op \in {"update", "delete"} =>
        LET pre == last.preTasks
            i == last.index + 1
        IN  IF last.index < 0 \/ last.index >= Len(pre)
            THEN /\ ~last.ret /\ last.raised = "none"
                 /\ tasks = pre
                 /\ ~last.wrote /\ file = last.preFile
            ELSE /\ last.ret /\ last.raised = "none"
                 /\ last.op = "update" =>
                        /\ Len(tasks) = Len(pre)
                        /\ tasks[i] = last.task
                        /\ \A j \in DOMAIN pre : j # i => tasks[j] = pre[j]
                 /\ last.op = "delete" =>
                        /\ Len(tasks) = Len(pre) - 1
                        /\ \A j \in 1..(i - 1) : tasks[j] = pre[j]
                        /\ \A j \in i..Len(tasks) : tasks[j] = pre[j + 1]

\* update_task(-1, ...) on a list of two or more tasks has returned False.
C5_Witness ==
    /\ last.op = "update" /\ last.index = -1
    /\ Len(last.preTasks) >= 2 /\ ~last.ret

\* A filter that excludes nothing: None, empty or whitespace only.
Blank(f) == f = None \/ \A i \in DOMAIN f : f[i] \in {" ", "\t", "\n"}

\* a and b are equal but for the case of their letters.
SameIgnoringCase(a, b) ==
    Len(a) = Len(b) /\ \A i \in DOMAIN a : LowerChar(a[i]) = LowerChar(b[i])

\* What the three filters of the last call let through.
Passes(t) ==
    /\ \/ Blank(last.nf)
       \/ \E k \in 0..(Len(t.name) - Len(last.nf)) :
              SameIgnoringCase(SubSeq(t.name, k + 1, k + Len(last.nf)), last.nf)
    /\ \/ Blank(last.pf)
       \/ SameIgnoringCase(last.pf, All)
       \/ SameIgnoringCase(last.pf, t.priority)
    /\ \/ Blank(last.df)
       \/ t.due_date = last.df

\* C6: get_filtered_tasks returns exactly the subsequence, in store order, of
\* the tasks that pass every supplied filter (name: a substring whatever the
\* case; priority: equal whatever the case; due date: equal), where a filter
\* that is None, empty or whitespace only, or a priority filter "all" in any
\* case, excludes nothing; the list and the file are left as they were.
C6_FilterSubsequence ==
    last.op = "filter" =>
        /\ last.result = SelectSeq(last.preTasks, Passes)
        /\ tasks = last.preTasks
        /\ file = last.preFile

\* A name filter and a priority filter together have let some tasks through
\* and kept others out.
C6_Witness ==
    /\ last.op = "filter"
    /\ ~Blank(last.nf) /\ ~Blank(last.pf) /\ ~SameIgnoringCase(last.pf, All)
    /\ last.result # <<>> /\ Len(last.result) < Len(tasks)

\* The rank the claim gives a task: 0 high, 1 medium, 2 low, 3 anything else.
ClaimedRank(t) ==
    IF SameIgnoringCase(t.priority, High) THEN 0
    ELSE IF SameIgnoringCase(t.priority, Medium) THEN 1
    ELSE IF SameIgnoringCase(t.priority, Low) THEN 2
    ELSE 3

\* The tasks of rank r, in the order xs has them.
OfRank(xs, r) ==
    LET hasRank(t) == ClaimedRank(t) = r IN SelectSeq(xs, hasRank)

\* C7: sort_tasks('priority') yields a permutation of the list; ascending,
\* every high precedes every medium, every medium every low, every low every
\* unrecognised priority; in both directions tasks of equal rank keep the
\* order they had.
C7_PrioritySortStable ==
    (last.op = "sort" /\ last.key = "priority") =>
        /\ last.raised = "none" /\ last.result = tasks
        /\ IsPermutation(tasks, last.preTasks)
        /\ ~last.reverse =>
               \A i, j \in DOMAIN tasks :
                   i < j => ClaimedRank(tasks[i]) <= ClaimedRank(tasks[j])
        /\ \A r \in 0..3 : OfRank(tasks, r) = OfRank(last.preTasks, r)

\* A descending priority sort has reordered a list that holds two different
\* tasks of one rank.
C7_Witness ==
    /\ last.op = "sort" /\ last.key = "priority" /\ last.reverse
    /\ tasks # last.preTasks
    /\ \E i, j \in DOMAIN tasks :
           /\ tasks[i] # tasks[j]
           /\ ClaimedRank(tasks[i]) = ClaimedRank(tasks[j])

\* C8: sort_tasks('due_date') on a store that holds a task whose due_date
\* strptime cannot parse, a store of one task included, ends with the parse
\* error propagated instead of a returned sequence, and leaves the order in
\* memory and the file as they were.
C8_DueDateSortRaises ==
    (/\ last.op = "sort" /\ last.key = "due_date"
     /\ \E i \in DOMAIN last.preTasks : ~Strptime(last.preTasks[i].due_date).ok)
    => /\ last.raised = "ValueError" /\ last.result = <<>>
       /\ tasks = last.preTasks
       /\ file = last.preFile

\* The due-date sort has failed on a store of one task.
C8_Witness ==
    /\ last.op = "sort" /\ last.key = "due_date"
    /\ Len(last.preTasks) = 1
    /\ last.raised = "ValueError"

(***************************************************************************)
(* Construction over any content of tasks.json                             *)
(***************************************************************************)

\* The longest list a file holds.
MaxRecords == 2

FieldKeys == <<K_name, K_description, K_priority, K_due_date>>

\* A record with the keys whose positions are in present, in file order.
RecordWith(present) ==
    LET keep(i) == i \in present
        idx == SelectSeq(<<1, 2, 3, 4>>, keep)
    IN  PyDict([i \in DOMAIN idx |-> <<FieldKeys[idx[i]], PyStr(<<"v">>)>>])

\* The text of what a list in the file may hold: records with any of the
\* four keys present or missing, a record with a fifth key, and values that
\* are no records.
FileElements ==
    {Encode(RecordWith(p)) : p \in SUBSET {1, 2, 3, 4}}
    \cup { Encode(SetItem(RecordWith({1, 2, 3, 4}), <<"i", "d">>, PyStr(<<"7">>))),
           <<StrTok(<<"a", "b">>)>>,
           <<NumTok(<<"4", "2">>)>>,
           <<Tok("null")>>,
           <<Tok("["), Tok("]")>> }

RECURSIVE ListsUpTo(_)
\* The sequences of at most n file elements.
ListsUpTo(n) ==
    IF n = 0 THEN {<<>>}
    ELSE LET shorter == ListsUpTo(n - 1)
         IN  shorter \cup {Append(xs, e) : xs \in shorter, e \in FileElements}

\* The JSON documents of the model: lists, and values that are no lists.
FileTexts ==
    {<<Tok("[")>> \o JoinTokens(xs) \o <<Tok("]")>> : xs \in ListsUpTo(MaxRecords)}
    \cup { <<NumTok(<<"4", "2">>)>>,
           <<Tok("null")>>,
           <<StrTok(<<>>)>>,
           <<StrTok(<<"a", "b">>)>>,
           <<Tok("{"), Tok("}")>>,
           Encode(RecordWith({1, 2, 3, 4})) }

\* Texts that are no JSON document: every proper prefix of a saved list of
\* one task (the empty text among them), and a text with data after its end.
BrokenTexts ==
    LET whole == SavedText(<<Task(<<"a">>, <<"x">>, High, S_2024_02_29)>>)
    IN  {SubSeq(whole, 1, n) : n \in 0..(Len(whole) - 1)}
        \cup {whole \o <<Tok("]")>>}

FileStates ==
    {Absent}
    \cup {[exists |-> TRUE, text |-> x] : x \in FileTexts \cup BrokenTexts}

\* The process has started and TaskManager.__init__ has set self.tasks = [].
InitLoad ==
    /\ file \in FileStates
    /\ tasks = <<>>
    /\ last = NoCall
    /\ gui = NoGui
    /\ IdleRest

\* TaskManager.__init__ calls load_tasks_from_json: the store holds what was
\* loaded, or the exception leaves the constructor.
Construct ==
    /\ last = NoCall
    /\ LET r == load_tasks_from_json(file)
       IN  /\ tasks' = r.tasks
           /\ last' = [Call("construct") EXCEPT !.raised = r.raised,
                                                !.result = r.tasks]
    /\ UNCHANGED <<file, pc, wbuf, date, valid, gui>>

NextLoad == Construct

SpecLoad == InitLoad /\ [][NextLoad]_vars

\* The file holds a JSON list of records that each have the four keys.
HoldsRecords(f) ==
    /\ f.exists
    /\ LET r == JsonLoad(f.text)
       IN  /\ r.ok
           /\ r.val.ty = "list"
           /\ \A i \in DOMAIN r.val.v :
                  /\ r.val.v[i].ty = "dict"
                  /\ \A k \in Range(FieldKeys) : HasKey(r.val.v[i], k)

\* C4: constructing a TaskManager never raises to the caller, and the store
\* ends with an empty task list whenever the file is absent, is not valid
\* JSON, is valid JSON that is not a sequence of records, or holds a record
\* missing one of the four keys.
C4_LoadFailsOpen ==
    last.op = "construct" =>
        /\ last.raised = "none"
        /\ ~HoldsRecords(file) => tasks = <<>>

(***************************************************************************)
(* save_tasks_to_json step by step, with the process able to die           *)
(***************************************************************************)

\* The tasks the calls are given while the save is followed step by step.
CrashPool ==
    { Task(<<"a">>, <<"x">>, High, S_2024_02_29),
      Task(<<"B">>, <<"y">>, Low, S_2025_01_01) }

\* An earlier run has saved a task.
InitCrash ==
    /\ file \in {save_tasks_to_json(<<t>>) : t \in CrashPool}
    /\ tasks = load_tasks_from_json(file).tasks
    /\ last = NoCall
    /\ pc = "idle" /\ wbuf = <<>>
    /\ date = <<>> /\ valid = FALSE
    /\ gui = NoGui

\* A call has changed the list and entered save_tasks_to_json:
\* open(self.json_file, "w") has created or truncated the file, and the
\* text json.dump produces is still to be written.
OpenForWrite(op, r) ==
    /\ pc = "idle"
    /\ r.saved
    /\ tasks' = r.tasks
    /\ file' = [exists |-> TRUE, text |-> <<>>]
    /\ wbuf' = SavedText(r.tasks)
    /\ pc' = "writing"
    /\ last' = [Call(op) EXCEPT !.result = r.tasks, !.wrote = TRUE]
    /\ UNCHANGED <<date, valid, gui>>

BeginAdd(t) ==
    /\ Len(tasks) < MaxTasks
    /\ OpenForWrite("add", add_task(tasks, t))

BeginUpdate(index, t) == OpenForWrite("update", update_task(tasks, index, t))

BeginDelete(index) == OpenForWrite("delete", delete_task(tasks, index))

\* The buffered writer passes the next n tokens on to the file.
Flush(n) ==
    /\ pc = "writing"
    /\ n <= Len(wbuf)
    /\ file' = [file EXCEPT !.text = file.text \o SubSeq(wbuf, 1, n)]
    /\ wbuf' = SubSeq(wbuf, n + 1, Len(wbuf))
    /\ UNCHANGED <<tasks, last, pc, date, valid, gui>>

\* The with block ends: what is left is written and the file is closed.
Close ==
    /\ pc = "writing"
    /\ file' = [file EXCEPT !.text = file.text \o wbuf]
    /\ wbuf' = <<>>
    /\ pc' = "idle"
    /\ UNCHANGED <<tasks, last, date, valid, gui>>

\* The process dies inside save_tasks_to_json: what was not yet passed on is
\* lost, and so is the list in memory.
Crash ==
    /\ pc = "writing"
    /\ pc' = "crashed"
    /\ wbuf' = <<>>
    /\ tasks' = <<>>
    /\ UNCHANGED <<file, last, date, valid, gui>>

\* The program is started again and constructs its store from the file. A
\* prefix of a saved list is never a JSON document whose load raises.
Restart ==
    /\ pc = "crashed"
    /\ load_tasks_from_json(file).raised = "none"
    /\ tasks' = load_tasks_from_json(file).tasks
    /\ pc' = "idle"
    /\ UNCHANGED <<file, last, wbuf, date, valid, gui>>

NextCrash ==
    \/ \E t \in CrashPool : BeginAdd(t)
    \/ \E i \in 0..(MaxTasks - 1), t \in CrashPool : BeginUpdate(i, t)
    \/ \E i \in 0..(MaxTasks - 1) : BeginDelete(i)
    \/ \E n \in 1..Len(wbuf) : Flush(n)
    \/ Close
    \/ Crash
    \/ Restart

SpecCrash == InitCrash /\ [][NextCrash]_vars

\* C3: at every point of save_tasks_to_json, a crash between its steps
\* included, a reader of the file finds either the complete previous content
\* or the complete new content, never an empty or partly written file.
C3_SaveAtomic ==
    last.op \in {"add", "update", "delete"} =>
        \/ file = last.preFile
        \/ file = [exists |-> TRUE, text |-> SavedText(last.result)]

(***************************************************************************)
(* validate_date over strings typed into the date field                    *)
(***************************************************************************)

YearFields ==
    { <<"2", "0", "2", "4">>, <<"2", "0", "2", "3">>, <<"1", "9", "0", "0">>,
      <<"2", "1", "0", "0">>, <<"1", "8", "9", "9">>, <<"2", "1", "0", "1">>,
      <<"2", "0", "0", "0">>, <<"+", "2", "0", "0">>, <<"2", "_", "2", "4">>,
      <<"2", "0", "a", "4">>, <<" ", "2", "0", "2">> }

MonthFields ==
    { <<"0", "1">>, <<"0", "2">>, <<"0", "4">>, <<"1", "2">>, <<"1", "3">>,
      <<"0", "0">>, <<"+", "2">>, <<" ", "2">>, <<"4", " ">>, <<"-", "1">>,
      <<"1", "_">>, <<"a", "1">> }

DayFields ==
    { <<"0", "1">>, <<"2", "8">>, <<"2", "9">>, <<"3", "0">>, <<"3", "1">>,
      <<"3", "2">>, <<"0", "0">>, <<"+", "5">>, <<" ", "5">>, <<"5", " ">>,
      <<"-", "5">>, <<"2", "x">> }

\* The strings validate_date is given: ten characters with any of the fields
\* above around "-" or "/", and strings of other lengths.
DateInputs ==
    { y \o <<a>> \o m \o <<b>> \o d :
        y \in YearFields, m \in MonthFields, d \in DayFields,
        a \in {"-", "/"}, b \in {"-", "/"} }
    \cup { <<>>, S_2024_1_5, S_2024_02_29 \o <<" ">>, <<" ">> \o S_2024_02_29,
           SubSeq(S_2024_02_29, 1, 9) }

InitDate ==
    /\ date \in DateInputs
    /\ valid = FALSE
    /\ last = NoCall
    /\ tasks = <<>> /\ file = Absent
    /\ pc = "idle" /\ wbuf = <<>>
    /\ gui = NoGui

\* TaskManagerGUI.validate_date(date) returns.
Validate ==
    /\ last = NoCall
    /\ valid' = validate_date(date)
    /\ last' = Call("validate")
    /\ UNCHANGED <<tasks, file, pc, wbuf, date, gui>>

NextDate == Validate

SpecDate == InitDate /\ [][NextDate]_vars

\* The dates the claim describes: ten characters, "-" at positions 4 and 7
\* (counted from 0), the other eight decimal digits, 1900 <= year <= 2100,
\* 1 <= month <= 12 and 1 <= day <= the days of that month, February having
\* 29 days iff the year is divisible by 400, or by 4 and not by 100.
IsCalendarDate(d) ==
    /\ Len(d) = 10
    /\ d[5] = "-" /\ d[8] = "-"
    /\ \A i \in {1, 2, 3, 4, 6, 7, 9, 10} : d[i] \in Range(Digits)
    /\ LET year == DigitsValue(SubSeq(d, 1, 4))
           month == DigitsValue(SubSeq(d, 6, 7))
           day == DigitsValue(SubSeq(d, 9, 10))
           leap == year % 400 = 0 \/ (year % 4 = 0 /\ year % 100 # 0)
           days == CASE month \in {4, 6, 9, 11} -> 30
                     [] month = 2 -> IF leap THEN 29 ELSE 28
                     [] OTHER -> 31
       IN  /\ 1900 <= year /\ year <= 2100
           /\ 1 <= month /\ month <= 12
           /\ 1 <= day /\ day <= days

\* C9: validate_date returns True exactly for the ten-character strings
\* YYYY-MM-DD with numeric fields that name a calendar date of the years 1900
\* to 2100, and False for every other string.
C9_ValidateExact ==
    last.op = "validate" => (valid <=> IsCalendarDate(date))

(***************************************************************************)
(* TaskManagerGUI: rows, selection, the edit dialogs and the buttons       *)
(***************************************************************************)

\* The most tasks the window is given, and the most edit dialogs open at once
\* (the dialogs are transient, not modal: the main window stays usable).
MaxGuiTasks == 2

MaxDialogs == 2

S_2024_p1_01 == <<"2", "0", "2", "4", "-", "+", "1", "-", "0", "1">>

\* What is typed into the dialogs: names (one only spaces), a priority of the
\* combobox, and due dates validate_date accepts or rejects. The description
\* is left empty.
TypedNames == {<<"a">>, <<"b", " ">>, <<" ">>}

TypedPriorities == {<<"H", "i", "g", "h">>}

TypedDates == {S_2024_02_29, S_2024_p1_01, S_2023_02_29}

\* populate_tree with the filter fields as the window starts (empty, "All",
\* empty): the rows are what get_filtered_tasks returns, and rebuilding the
\* rows clears the selection.
populate_tree(ts) == get_filtered_tasks(ts, <<>>, <<"A", "l", "l">>, <<>>)

Refreshed(g, ts) == [g EXCEPT !.tree = populate_tree(ts), !.selection = 0]

\* The loop of edit_task_dialog and delete_task: the 0-based index of the
\* first task with the name of the selected row, or -1.
IndexOfName(ts, item_name) ==
    LET hits == {i \in DOMAIN ts : ts[i].name = item_name}
    IN  IF hits = {} THEN -1
        ELSE (CHOOSE i \in hits : \A j \in hits : i <= j) - 1

DistinctNames(ts) ==
    \A i, j \in DOMAIN ts : i # j => ts[i].name # ts[j].name

\* An open edit dialog is [task_index, at]: task_index is the index its
\* closure keeps; at is where the task it was opened on is now (-1 once that
\* task is deleted), which the program does not know.
MovedBySort(dialogs, perm) ==
    {[d EXCEPT !.at = IF d.at = -1 THEN -1
                      ELSE (CHOOSE i \in DOMAIN perm : perm[i] = d.at + 1) - 1]
        : d \in dialogs}

MovedByDelete(dialogs, index) ==
    {[d EXCEPT !.at = IF d.at = index THEN -1
                      ELSE IF d.at > index THEN d.at - 1 ELSE d.at]
        : d \in dialogs}

\* Nothing has just been updated, and no sort has just raised.
Quiet(g) ==
    [g EXCEPT !.updated = FALSE, !.on_target = TRUE, !.sort_raised = "none"]

\* The program starts with no tasks.json: an empty store, an empty table.
InitGui ==
    /\ file = Absent
    /\ tasks = load_tasks_from_json(file).tasks
    /\ gui = NoGui
    /\ last = NoCall
    /\ IdleRest

\* A row of the table is clicked.
SelectRow(row) ==
    /\ row \in DOMAIN gui.tree
    /\ gui' = [Quiet(gui) EXCEPT !.selection = row]
    /\ UNCHANGED <<tasks, file, last, pc, wbuf, date, valid>>

\* apply_filter, and reset_filters with the fields as they started.
ApplyFilter ==
    /\ gui' = Refreshed(Quiet(gui), tasks)
    /\ UNCHANGED <<tasks, file, last, pc, wbuf, date, valid>>

\* TaskManagerGUI.sort_tasks with self.sort_reverse as g has it: the store
\* sorts, and the table is rebuilt unless the sort raised; what it raised
\* goes to Tk's callback handler and the window stays open.
GuiSorted(g, sort_key) ==
    LET r == sort_tasks(tasks, sort_key, g.sort_reverse)
        g1 == [g EXCEPT !.sort_column = sort_key,
                        !.sort_raised = r.raised,
                        !.dialogs = MovedBySort(g.dialogs, r.perm)]
    IN  /\ tasks' = Permute(tasks, r.perm)
        /\ gui' = IF r.raised = "none"
                  THEN Refreshed(g1, Permute(tasks, r.perm)) ELSE g1
        /\ UNCHANGED <<file, last, pc, wbuf, date, valid>>

\* One of the three "Sort by" buttons.
SortButton(sort_key) == GuiSorted(Quiet(gui), sort_key)

\* on_column_click: a second click on the same heading turns the order round.
ColumnClick(column) ==
    GuiSorted([Quiet(gui) EXCEPT
                   !.sort_reverse = IF gui.sort_column = column
                                    THEN ~gui.sort_reverse ELSE FALSE,
                   !.sort_column = column],
              column)

\* The "Add Task" button of the add dialog, with what its fields hold.
PressAdd(name_entry, priority_combo, date_entry) ==
    LET name == Strip(name_entry)
        due_date == Strip(date_entry)
        r == add_task(tasks, Task(name, <<>>, Lower(priority_combo), due_date))
    IN  /\ Len(tasks) < MaxGuiTasks
        /\ name # <<>>
        /\ validate_date(due_date)
        /\ DistinctNames(r.tasks)
        /\ tasks' = r.tasks
        /\ file' = FileAfter(file, r)
        /\ gui' = Refreshed(Quiet(gui), r.tasks)
        /\ UNCHANGED <<last, pc, wbuf, date, valid>>

\* edit_task_dialog: the dialog keeps the index the selected row's name has
\* in the store now.
OpenEdit ==
    /\ gui.selection # 0
    /\ Cardinality(gui.dialogs) < MaxDialogs
    /\ LET task_index == IndexOfName(tasks, gui.tree[gui.selection].name)
       IN  /\ task_index # -1
           /\ gui' = [Quiet(gui) EXCEPT
                          !.dialogs = @ \cup {[task_index |-> task_index,
                                               at |-> task_index]}]
    /\ UNCHANGED <<tasks, file, last, pc, wbuf, date, valid>>

\* The "Update Task" button of edit dialog d, with what its fields hold: the
\* store is updated at the index the dialog kept; on success the dialog
\* closes and the table is rebuilt, else the dialog stays.
PressUpdate(d, name_entry, priority_combo, date_entry) ==
    LET name == Strip(name_entry)
        due_date == Strip(date_entry)
        r == update_task(tasks, d.task_index,
                         Task(name, <<>>, Lower(priority_combo), due_date))
    IN  /\ d \in gui.dialogs
        /\ name # <<>>
        /\ validate_date(due_date)
        /\ DistinctNames(r.tasks)
        /\ tasks' = r.tasks
        /\ file' = FileAfter(file, r)
        /\ gui' = IF r.ret
                  THEN Refreshed([gui EXCEPT
                                      !.dialogs = @ \ {d},
                                      !.updated = TRUE,
                                      !.on_target = (d.task_index = d.at)],
                                 r.tasks)
                  ELSE Quiet(gui)
        /\ UNCHANGED <<last, pc, wbuf, date, valid>>

\* The "Cancel" button of edit dialog d.
CancelEdit(d) ==
    /\ d \in gui.dialogs
    /\ gui' = [Quiet(gui) EXCEPT !.dialogs = @ \ {d}]
    /\ UNCHANGED <<tasks, file, last, pc, wbuf, date, valid>>

\* TaskManagerGUI.delete_task, the question answered yes.
PressDelete ==
    /\ gui.selection # 0
    /\ LET task_index == IndexOfName(tasks, gui.tree[gui.selection].name)
           r == delete_task(tasks, task_index)
       IN  /\ task_index # -1
           /\ tasks' = r.tasks
           /\ file' = FileAfter(file, r)
           /\ gui' = IF r.ret
                     THEN Refreshed([Quiet(gui) EXCEPT
                                         !.dialogs = MovedByDelete(@, task_index)],
                                    r.tasks)
                     ELSE Quiet(gui)
    /\ UNCHANGED <<last, pc, wbuf, date, valid>>

NextGui ==
    \/ \E row \in 1..MaxGuiTasks : SelectRow(row)
    \/ ApplyFilter
    \/ \E k \in {"name", "priority", "due_date"} : SortButton(k)
    \/ \E c \in SortKeys : ColumnClick(c)
    \/ \E n \in TypedNames, p \in TypedPriorities, d \in TypedDates :
           PressAdd(n, p, d)
    \/ OpenEdit
    \/ \E dlg \in gui.dialogs, n \in TypedNames, p \in TypedPriorities,
          d \in TypedDates : PressUpdate(dlg, n, p, d)
    \/ \E dlg \in gui.dialogs : CancelEdit(dlg)
    \/ PressDelete

SpecGui == InitGui /\ [][NextGui]_vars

\* C10: with all task names distinct, whenever the Update button of an edit
\* dialog succeeds, the task it replaces is the task that was selected when
\* the dialog was opened, whatever was done in the main window in between.
C10_UpdateHitsSelected == gui.updated => gui.on_target

\* C11: starting from an empty store, after any adds, edits and deletes made
\* through the dialogs (each due date having passed validate_date), a sort by
\* due_date never raises: every stored due date is one strptime parses.
C11_ValidatedDatesSort ==
    /\ \A i \in DOMAIN tasks : Strptime(tasks[i].due_date).ok
    /\ (gui.sort_column = "due_date" => gui.sort_raised = "none")

====
